---- MODULE Spec2Model ----
(***************************************************************************)
(* Precision/recall metrics of cotk (cotk/metric/precision_recall.py):     *)
(* _PrecisionRecallMetric with its two strategies,                         *)
(* BleuPrecisionRecallMetric and EmbSimilarityPrecisionRecallMetric.       *)
(*                                                                         *)
(* Numbers.  A score is a float in the source.  Here a score is a point of *)
(* the grid 0, 1/ScoreDen, ..., 1 (an integer 0..ScoreDen, rounded down),  *)
(* or NaN.  A precision or recall entry is an exact fraction [n, d] of     *)
(* such grid units in lowest terms, so equal floats are equal entries.     *)
(*                                                                         *)
(* Hashes.  MetricBase (cotk/metric/metric.py) keeps an order-sensitive    *)
(* sha256 over the configuration and an order-insensitive sum of sha256    *)
(* digests over the references.  Both are modelled collision free: the     *)
(* ordered hash is the sequence of everything fed to it, the unordered     *)
(* hash is the bag of everything fed to it.                                *)
(***************************************************************************)
EXTENDS Integers, Sequences, FiniteSets, TLC

VARIABLES
    metric,   \* metric[m]: the fields of metric object m
    last,     \* last[m]: the last call on m: the operation, the exception raised, the result
    fed,      \* fed[m]: the batches that passed the checks of forward on m, in call
              \* order, each with the exception its call ended with ("none": it returned)
    results   \* results[m]: the mappings close returned on m, in call order, each with
              \* the number of forward calls that had returned before

vars == <<metric, last, fed, results>>

-----------------------------------------------------------------------------
(* Bounds of the model *)

\* Largest number of instances in one batch.
MaxBatch == 2

\* Largest number of forward calls on one metric object that pass its checks.
MaxCalls == 2

\* Resolution of the score grid: a score is a multiple of 1/ScoreDen.
ScoreDen == 20

\* Largest number of tokens of a sentence that is scored on its own.
MaxSentence == 2

-----------------------------------------------------------------------------
(* Vocabulary of the dataloader (docstring of forward, line 76) *)

pad_id == 0
unk_id == 1
eos_id == 3

all_vocab_list == <<"<pad>", "<unk>", "<go>", "<eos>", "I", "have">>

\* The float nan, which numpy arithmetic produces for 0/0 and propagates.
NaN == 0 - 1

-----------------------------------------------------------------------------
(* Sequences and integers *)

Tail1(s) == IF s = <<>> THEN <<>> ELSE Tail(s)

RECURSIVE Flatten(_)
Flatten(ss) == IF ss = <<>> THEN <<>> ELSE Head(ss) \o Flatten(Tail(ss))

SeqsUpTo(S, n) == UNION {[1..k -> S] : k \in 0..n}

RECURSIVE GCD(_, _)
GCD(a, b) == IF b = 0 THEN a ELSE GCD(b, a % b)

Min2(a, b) == IF a < b THEN a ELSE b

RECURSIVE Pow(_, _)
Pow(b, e) == IF e = 0 THEN 1 ELSE b * Pow(b, e - 1)

-----------------------------------------------------------------------------
(* Float arithmetic on the grid *)

\* A float value n/d (in grid units), in lowest terms; nan is [n |-> NaN, d |-> 1].
FNaN == [n |-> NaN, d |-> 1]

Frac(n, d) ==
    IF n = NaN THEN FNaN
    ELSE LET g == GCD(n, d) IN [n |-> n \div g, d |-> d \div g]

FAdd(x, y) ==
    IF x.n = NaN \/ y.n = NaN THEN FNaN
    ELSE Frac(x.n * y.d + y.n * x.d, x.d * y.d)

\* max of two floats as numpy's maximum does it: nan wins.
SMax(a, b) == IF a = NaN \/ b = NaN THEN NaN ELSE IF a < b THEN b ELSE a

\* sum of two floats: nan wins.
SAdd(a, b) == IF a = NaN \/ b = NaN THEN NaN ELSE a + b

-----------------------------------------------------------------------------
(* The dataloader, a collaborator of the metric *)

RECURSIVE trim_before_target(_, _)
trim_before_target(ids, target) ==
    IF ids = <<>> \/ Head(ids) = target THEN <<>>
    ELSE <<Head(ids)>> \o trim_before_target(Tail(ids), target)

RECURSIVE strip_pad(_)
strip_pad(ids) ==
    IF ids = <<>> THEN <<>>
    ELSE IF ids[Len(ids)] = pad_id THEN strip_pad(SubSeq(ids, 1, Len(ids) - 1))
    ELSE ids

\* dataloader.trim_in_ids: cut at the first end token, drop trailing padding.
trim_in_ids(ids) == strip_pad(trim_before_target(ids, eos_id))

\* dataloader.convert_ids_to_tokens
convert_ids_to_tokens(ids) == [k \in 1..Len(ids) |-> all_vocab_list[ids[k] + 1]]

-----------------------------------------------------------------------------
(* The n-gram strategy: BleuPrecisionRecallMetric *)

\* BleuPrecisionRecallMetric._replace_unk
_replace_unk(_input, _target) ==
    [k \in 1..Len(_input) |-> IF _input[k] = unk_id THEN _target ELSE _input[k]]

\* The k-grams of a sentence, one per position.
NGrams(s, k) ==
    IF Len(s) < k THEN <<>> ELSE [p \in 1..(Len(s) - k + 1) |-> SubSeq(s, p, p + k - 1)]

Occurrences(g, grams) == Cardinality({p \in 1..Len(grams) : grams[p] = g})

RECURSIVE ClippedCount(_, _, _)
\* Sum over the distinct k-grams g in S of min(count of g in hyp, count of g in ref).
ClippedCount(S, hyp, ref) ==
    IF S = {} THEN 0
    ELSE LET g == CHOOSE x \in S : TRUE
         IN Min2(Occurrences(g, hyp), Occurrences(g, ref)) + ClippedCount(S \ {g}, hyp, ref)

\* nltk modified_precision: the clipped count of the hypothesis' k-grams found
\* in the reference, over max(1, number of k-grams of the hypothesis).
ModifiedPrecision(reference, hypothesis, k) ==
    LET hyp == NGrams(hypothesis, k)
        ref == NGrams(reference, k)
    IN [n |-> ClippedCount({hyp[p] : p \in 1..Len(hyp)}, hyp, ref),
        d |-> IF Len(hyp) = 0 THEN 1 ELSE Len(hyp)]

\* nltk SmoothingFunction().method1: a zero count becomes epsilon = 0.1.
Method1(p) == IF p.n = 0 THEN [n |-> 1, d |-> 10 * p.d] ELSE p

\* nltk brevity_penalty in hundredths, rounded down: 1 for a hypothesis at
\* least as long as the reference, 0 for an empty one, else exp(1 - r/c).
\* exp is tabulated for the sentence lengths of the model (at most 3 tokens).
BrevityPenalty(ref_len, hyp_len) ==
    IF hyp_len >= ref_len /\ hyp_len > 0 THEN 100
    ELSE IF hyp_len = 0 THEN 0
    ELSE CASE <<hyp_len, ref_len>> = <<1, 2>> -> 36
           [] <<hyp_len, ref_len>> = <<1, 3>> -> 13
           [] <<hyp_len, ref_len>> = <<2, 3>> -> 60

RECURSIVE ProdNum(_, _)
ProdNum(ps, k) == IF k = 0 THEN 1 ELSE ps[k].n * ProdNum(ps, k - 1)

RECURSIVE ProdDen(_, _)
ProdDen(ps, k) == IF k = 0 THEN 1 ELSE ps[k].d * ProdDen(ps, k - 1)

\* nltk sentence_bleu([reference], hypothesis, [1/ngram] * ngram, method1):
\* 0 without a unigram match, else bp * (p_1 * ... * p_ngram)^(1/ngram),
\* rounded down to the grid: the number of grid points 1..ScoreDen not above it.
sentence_bleu(reference, hypothesis, ngram) ==
    LET p1 == ModifiedPrecision(reference, hypothesis, 1)
        ps == [k \in 1..ngram |-> Method1(ModifiedPrecision(reference, hypothesis, k))]
        bp == BrevityPenalty(Len(reference), Len(hypothesis))
        Fits(q) == Pow(100 * q, ngram) * ProdDen(ps, ngram)
                       <= Pow(ScoreDen * bp, ngram) * ProdNum(ps, ngram)
    IN IF p1.n = 0 THEN 0
       ELSE Cardinality({q \in 1..ScoreDen : Fits(q)})

\* _score without line 213: the candidate goes to sentence_bleu as it is.
BleuScoreKeepUnk(self, gen, reference) ==
    sentence_bleu(reference, gen, self.ngram)

\* BleuPrecisionRecallMetric._score
BleuScore(self, gen, reference) ==
    sentence_bleu(reference, _replace_unk(gen, 0 - 1), self.ngram)

-----------------------------------------------------------------------------
(* The embedding strategy: EmbSimilarityPrecisionRecallMetric *)

\* word2vec is a dict: here the sequence of its (word, vector) items in
\* insertion order.
InTable(word2vec, word) == \E k \in 1..Len(word2vec) : word2vec[k][1] = word

VecOf(word2vec, word) ==
    word2vec[CHOOSE k \in 1..Len(word2vec) : word2vec[k][1] = word][2]

RECURSIVE Vectors(_, _)
\* The vectors of the words of a sentence that the table holds (lines 297-302).
Vectors(word2vec, words) ==
    IF words = <<>> THEN <<>>
    ELSE (IF InTable(word2vec, Head(words))
          THEN <<VecOf(word2vec, Head(words))>> ELSE <<>>)
         \o Vectors(word2vec, Tail(words))

RECURSIVE VecSum(_)
VecSum(vs) ==
    IF Len(vs) = 1 THEN vs[1]
    ELSE LET r == VecSum(Tail(vs)) IN [c \in 1..Len(vs[1]) |-> vs[1][c] + r[c]]

RECURSIVE VecMax(_)
VecMax(vs) ==
    IF Len(vs) = 1 THEN vs[1]
    ELSE LET r == VecMax(Tail(vs))
         IN [c \in 1..Len(vs[1]) |-> IF vs[1][c] < r[c] THEN r[c] ELSE vs[1][c]]

RECURSIVE Dot(_, _)
Dot(u, v) == IF u = <<>> THEN 0 ELSE Head(u) * Head(v) + Dot(Tail(u), Tail(v))

\* np.average(vecs, 0) or np.max(vecs, 0).  The average is kept as the sum,
\* in units of 1/Len(vecs): the cosine does not depend on the unit.
Pool(mode, vecs) == IF mode = "avg" THEN VecSum(vecs) ELSE VecMax(vecs)

\* (cos + 1) / 2 rounded down to the grid (the number of grid points
\* 1..ScoreDen not above it), cos = dot / sqrt(gg * rr);
\* nan when a pooled vector is the zero vector (0/0 in numpy).
CosNorm(gen_embed, ref_embed) ==
    LET dot == Dot(gen_embed, ref_embed)
        sq  == Dot(gen_embed, gen_embed) * Dot(ref_embed, ref_embed)
        \* 2q - ScoreDen <= ScoreDen * dot / sqrt(sq)
        Fits(q) == LET a == 2 * q - ScoreDen
                       b == ScoreDen * dot
                   IN \/ a <= 0 /\ b >= 0
                      \/ a >= 0 /\ b >= 0 /\ a * a * sq <= b * b
                      \/ a <= 0 /\ b <= 0 /\ a * a * sq >= b * b
    IN IF sq = 0 THEN NaN
       ELSE Cardinality({q \in 1..ScoreDen : Fits(q)})

\* _score with line 303 looking at gen_vec alone: the cosine with an empty
\* ref_vec is 0/0.
EmbScoreGenOnly(self, gen, reference) ==
    LET gen_vec == Vectors(self.word2vec, convert_ids_to_tokens(gen))
        ref_vec == Vectors(self.word2vec, convert_ids_to_tokens(reference))
    IN IF gen_vec = <<>> THEN 0
       ELSE IF ref_vec = <<>> THEN NaN
       ELSE CosNorm(Pool(self.mode, gen_vec), Pool(self.mode, ref_vec))

\* _score taking the first vector of the reference instead of pooling them.
EmbScoreRefFirst(self, gen, reference) ==
    LET gen_vec == Vectors(self.word2vec, convert_ids_to_tokens(gen))
        ref_vec == Vectors(self.word2vec, convert_ids_to_tokens(reference))
    IN IF gen_vec = <<>> \/ ref_vec = <<>> THEN 0
       ELSE CosNorm(Pool(self.mode, gen_vec), ref_vec[1])

\* EmbSimilarityPrecisionRecallMetric._score
EmbScore(self, gen, reference) ==
    LET gen_vec == Vectors(self.word2vec, convert_ids_to_tokens(gen))
        ref_vec == Vectors(self.word2vec, convert_ids_to_tokens(reference))
    IN IF gen_vec = <<>> \/ ref_vec = <<>> THEN 0
       ELSE CosNorm(Pool(self.mode, gen_vec), Pool(self.mode, ref_vec))

\* self._score: dispatch on the class of the metric object.
_score(self, gen, reference) ==
    IF self.name = "BleuPrecisionRecallMetric"
    THEN BleuScore(self, gen, reference)
    ELSE EmbScore(self, gen, reference)

-----------------------------------------------------------------------------
(* MetricBase: the base class of every metric *)

\* The accumulator of the unordered hash: how often each item was added.
EmptyBag == <<>>

BagAdd(a, b) ==
    [x \in DOMAIN a \cup DOMAIN b |->
        (IF x \in DOMAIN a THEN a[x] ELSE 0) + (IF x \in DOMAIN b THEN b[x] ELSE 0)]

BagOfSeq(data_list) ==
    [x \in {data_list[k] : k \in 1..Len(data_list)} |->
        Cardinality({k \in 1..Len(data_list) : data_list[k] = x})]

\* MetricBase.__init__: the name and the version are the first data of the
\* ordered hash.
MetricBase_init(name, version) ==
    [name |-> name, version |-> version, closed |-> FALSE,
     unordered_hash |-> EmptyBag, ordered_hash |-> << <<name, version>> >>]

\* MetricBase._hash_unordered_list: every item is added to an accumulator
\* that does not depend on the order of the additions.
_hash_unordered_list(self, data_list) ==
    [self EXCEPT !.unordered_hash = BagAdd(@, BagOfSeq(data_list))]

\* MetricBase._hash_ordered_data: the data is fed to a running sha256.
_hash_ordered_data(self, data_list) ==
    [self EXCEPT !.ordered_hash = Append(@, data_list)]

\* MetricBase._hashvalue: the digest of both accumulators.
_hashvalue(self) == <<self.ordered_hash, self.unordered_hash>>

\* MetricBase.forward: a closed metric takes no more data.
MetricBase_forward(self) == IF self.closed THEN "closed" ELSE "none"

\* MetricBase.close: closes the metric once, returning an empty dict, and
\* fails from then on.
MetricBase_close(self) ==
    IF self.closed THEN [self |-> self, err |-> "closed", res |-> <<>>]
    ELSE [self |-> [self EXCEPT !.closed = TRUE], err |-> "none", res |-> <<>>]

-----------------------------------------------------------------------------
(* _PrecisionRecallMetric *)

\* _PrecisionRecallMetric.__init__ (lines 34-41), on top of MetricBase.__init__.
\* ngram, mode and word2vec are the fields the subclasses add.
PrecisionRecall_init(name, version, generated_num_per_context) ==
    MetricBase_init(name, version) @@
    [generated_num_per_context |-> generated_num_per_context,
     prec_list |-> <<>>, rec_list |-> <<>>, res_prefix |-> "",
     ngram |-> 0, mode |-> "", word2vec |-> <<>>]

\* Line 181 hashing ngram alone.
BleuHashDataNgramOnly(ngram, generated_num_per_context) == <<ngram>>

\* BleuPrecisionRecallMetric.__init__: the data of the configuration hash.
BleuHashData(ngram, generated_num_per_context) ==
    <<ngram, generated_num_per_context>>

\* BleuPrecisionRecallMetric.__init__
Bleu_init(ngram, generated_num_per_context) ==
    LET base == PrecisionRecall_init("BleuPrecisionRecallMetric", 2,
                                     generated_num_per_context)
    IN _hash_ordered_data(
           [base EXCEPT !.ngram = ngram,
                        !.res_prefix = "BLEU-" \o ToString(ngram)],
           BleuHashData(ngram, generated_num_per_context))

\* EmbSimilarityPrecisionRecallMetric.__init__: the data of the configuration
\* hash, the items of word2vec in the order the dict yields them.
EmbHashData(word2vec, mode, generated_num_per_context) ==
    <<mode, generated_num_per_context>> \o word2vec

\* EmbSimilarityPrecisionRecallMetric.__init__, for a well-formed table and mode.
Emb_init(word2vec, mode, generated_num_per_context) ==
    LET base == PrecisionRecall_init("EmbSimilarityPrecisionRecallMetric", 2,
                                     generated_num_per_context)
    IN _hash_ordered_data(
           [base EXCEPT !.word2vec = word2vec, !.mode = mode,
                        !.res_prefix = mode \o "-bow"],
           EmbHashData(word2vec, mode, generated_num_per_context))

\* Line 269: the shape of np.array(list(word2vec.values())) for a non-empty
\* table of vectors: (n, d) when the n vectors all have length d, else (n,).
\* (A numpy that refuses a ragged array raises ValueError there itself, which
\* is the outcome of line 271 as well.)
embed_shape(word2vec) ==
    LET lens == {Len(word2vec[k][2]) : k \in 1..Len(word2vec)}
    IN IF Cardinality(lens) = 1
       THEN <<Len(word2vec), CHOOSE d \in lens : TRUE>>
       ELSE <<Len(word2vec)>>

\* The value of a constructor call that raised: no object.
NoObject == <<>>

\* The constructor without the mode check of lines 272-273.
Emb_constructAnyMode(word2vec_type, word2vec, mode, generated_num_per_context) ==
    IF word2vec_type # "dict"
    THEN [err |-> "word2vec_type", self |-> NoObject]
    ELSE IF word2vec # <<>>
            /\ (Len(embed_shape(word2vec)) # 2 \/ embed_shape(word2vec)[2] = 0)
    THEN [err |-> "embed_shape", self |-> NoObject]
    ELSE [err |-> "none",
          self |-> Emb_init(word2vec, mode, generated_num_per_context)]

\* EmbSimilarityPrecisionRecallMetric.__init__ with its checks (lines
\* 266-273), each raising ValueError: the exception raised, named after the
\* check, and the object constructed.
Emb_construct(word2vec_type, word2vec, mode, generated_num_per_context) ==
    IF word2vec_type # "dict"
    THEN [err |-> "word2vec_type", self |-> NoObject]
    ELSE IF word2vec # <<>>
            /\ (Len(embed_shape(word2vec)) # 2 \/ embed_shape(word2vec)[2] = 0)
    THEN [err |-> "embed_shape", self |-> NoObject]
    ELSE IF mode \notin {"avg", "extrema"}
    THEN [err |-> "mode", self |-> NoObject]
    ELSE [err |-> "none",
          self |-> Emb_init(word2vec, mode, generated_num_per_context)]

\* Lines 93-94 without the slice [1:]: the references keep their first token.
ReferencesKeepFirst(candidate_allvocabs) ==
    [b \in 1..Len(candidate_allvocabs) |->
        [i \in 1..Len(candidate_allvocabs[b]) |->
            trim_in_ids(candidate_allvocabs[b][i])]]

\* Lines 93-94: every reference loses its first token and is trimmed.
References(candidate_allvocabs) ==
    [b \in 1..Len(candidate_allvocabs) |->
        [i \in 1..Len(candidate_allvocabs[b]) |->
            trim_in_ids(Tail1(candidate_allvocabs[b][i]))]]

\* Lines 95-96: every generated sentence is trimmed.
Gens(multiple_gen) ==
    [b \in 1..Len(multiple_gen) |->
        [j \in 1..Len(multiple_gen[b]) |-> trim_in_ids(multiple_gen[b][j])]]

\* The checks without the loop of lines 101-105.
ValidateWithoutGenNum(self, data) ==
    IF ~(data.cav_type \in {"list", "ndarray"}) THEN "type_candidate_allvocabs"
    ELSE IF ~(data.gen_type \in {"list", "ndarray"}) THEN "type_multiple_gen"
    ELSE IF Len(data.cav) # Len(data.gen) THEN "batch_num"
    ELSE "none"

\* The checks with the loop of lines 101-105 before the check of line 98.
ValidateCountFirst(self, data) ==
    IF ~(data.cav_type \in {"list", "ndarray"}) THEN "type_candidate_allvocabs"
    ELSE IF ~(data.gen_type \in {"list", "ndarray"}) THEN "type_multiple_gen"
    ELSE IF \E b \in 1..Len(data.gen) :
                Len(data.gen[b]) # self.generated_num_per_context
         THEN "gen_num"
    ELSE IF Len(data.cav) # Len(data.gen) THEN "batch_num"
    ELSE "none"

\* Lines 88-105: the checks of forward, in their order.
Validate(self, data) ==
    IF ~(data.cav_type \in {"list", "ndarray"}) THEN "type_candidate_allvocabs"
    ELSE IF ~(data.gen_type \in {"list", "ndarray"}) THEN "type_multiple_gen"
    ELSE IF Len(data.cav) # Len(data.gen) THEN "batch_num"
    ELSE IF \E b \in 1..Len(data.gen) :
                Len(data.gen[b]) # self.generated_num_per_context
         THEN "gen_num"
    ELSE "none"

\* Lines 110-113: matrix[i][j] = _score(gen[j], reference[i]).
ScoreMatrix(self, reference, gen) ==
    [i \in 1..Len(reference) |->
        [j \in 1..Len(gen) |-> _score(self, gen[j], reference[i])]]

RECURSIVE MaxOfSeq(_)
MaxOfSeq(xs) == IF Len(xs) = 1 THEN xs[1] ELSE SMax(xs[1], MaxOfSeq(Tail(xs)))

RECURSIVE SumOfSeq(_)
SumOfSeq(xs) == IF xs = <<>> THEN 0 ELSE SAdd(xs[1], SumOfSeq(Tail(xs)))

\* np.max(matrix, 0): for every column j the largest cell of the column.
MaxAxis0(matrix, ncols) ==
    [j \in 1..ncols |-> MaxOfSeq([i \in 1..Len(matrix) |-> matrix[i][j]])]

\* np.max(matrix, 1): for every row i the largest cell of the row.
MaxAxis1(matrix) == [i \in 1..Len(matrix) |-> MaxOfSeq(matrix[i])]

\* Line 114 with the maximum taken along the other axis.
PrecContributionAxis1(matrix, ngen) == Frac(SumOfSeq(MaxAxis1(matrix)), ngen)

\* Line 114: float(np.sum(np.max(matrix, 0))) / len(gen)
PrecContribution(matrix, ngen) == Frac(SumOfSeq(MaxAxis0(matrix, ngen)), ngen)

\* Line 115 dividing by the number of generated sentences.
RecContributionOverGen(matrix, nref) ==
    Frac(SumOfSeq(MaxAxis1(matrix)), Len(matrix[1]))

\* Line 115: float(np.sum(np.max(matrix, 1))) / len(reference)
RecContribution(matrix, nref) == Frac(SumOfSeq(MaxAxis1(matrix)), nref)

\* Lines 110-115 for one instance.  np.max over an axis of length 0 raises
\* ValueError (no reference), and float / 0 raises ZeroDivisionError (no
\* generated sentence); both happen on line 114, before anything is appended.
ForwardInstance(self, reference, gen) ==
    LET matrix == ScoreMatrix(self, reference, gen)
    IN IF Len(reference) = 0 THEN [self |-> self, err |-> "ValueError"]
       ELSE IF Len(gen) = 0 THEN [self |-> self, err |-> "ZeroDivisionError"]
       ELSE [self |-> [self EXCEPT
                          !.prec_list = Append(@, PrecContribution(matrix, Len(gen))),
                          !.rec_list = Append(@, RecContribution(matrix, Len(reference)))],
             err |-> "none"]

RECURSIVE ForwardLoopReversed(_, _, _)
\* The loop of lines 108-115 taking the instances from the last to the first.
ForwardLoopReversed(self, references, gens) ==
    IF references = <<>> THEN [self |-> self, err |-> "none"]
    ELSE LET n == Len(references)
             one == ForwardInstance(self, references[n], gens[n])
         IN IF one.err # "none" THEN one
            ELSE ForwardLoopReversed(one.self, SubSeq(references, 1, n - 1),
                                     SubSeq(gens, 1, n - 1))

RECURSIVE ForwardLoop(_, _, _)
\* Lines 108-115: the instances in batch order; the first failure ends the call.
ForwardLoop(self, references, gens) ==
    IF references = <<>> THEN [self |-> self, err |-> "none"]
    ELSE LET one == ForwardInstance(self, Head(references), Head(gens))
         IN IF one.err # "none" THEN one
            ELSE ForwardLoop(one.self, Tail(references), Tail(gens))

\* Line 107 feeding the references to the ordered hash.
AccumulateOrdered(self, references, gens) ==
    ForwardLoop(_hash_ordered_data(self, Flatten(references)), references, gens)

\* Line 107 hashing the generated sentences with the references.
AccumulateWithGens(self, references, gens) ==
    ForwardLoop(_hash_unordered_list(self, Flatten(references) \o Flatten(gens)),
                references, gens)

\* Lines 107-115: what forward does with a batch that passed the checks.
Accumulate(self, references, gens) ==
    ForwardLoop(_hash_unordered_list(self, Flatten(references)), references, gens)

\* forward without the call of MetricBase.forward on line 84.
forwardWithoutSuper(self, data) ==
    IF Validate(self, data) # "none"
    THEN [self |-> self, err |-> Validate(self, data)]
    ELSE Accumulate(self, References(data.cav), Gens(data.gen))

\* _PrecisionRecallMetric.forward: the metric object after the call, and the
\* exception raised ("none" when the call returns).
forward(self, data) ==
    IF MetricBase_forward(self) # "none"
    THEN [self |-> self, err |-> MetricBase_forward(self)]
    ELSE IF Validate(self, data) # "none"
    THEN [self |-> self, err |-> Validate(self, data)]
    ELSE Accumulate(self, References(data.cav), Gens(data.gen))

RECURSIVE FSum(_)
FSum(xs) == IF xs = <<>> THEN Frac(0, 1) ELSE FAdd(xs[1], FSum(Tail(xs)))

\* np.average(list): the sum over the length; nan for an empty list.
Average(xs) ==
    IF xs = <<>> THEN FNaN
    ELSE LET t == FSum(xs) IN Frac(t.n, t.d * Len(xs))

\* close without the guard of line 127.
NotReadyUnchecked(self) == FALSE

\* Line 127: the guard of close.
NotReady(self) == self.prec_list = <<>> \/ self.rec_list = <<>>

\* Lines 130-132 without the hashvalue entry.
ResultWithoutHash(self) ==
    (self.res_prefix \o " precision" :> Average(self.prec_list))
    @@ (self.res_prefix \o " recall" :> Average(self.rec_list))

\* Lines 130-132: the three entries res is updated with.
Result(self) ==
    (self.res_prefix \o " precision" :> Average(self.prec_list))
    @@ (self.res_prefix \o " recall" :> Average(self.rec_list))
    @@ (self.res_prefix \o " hashvalue" :> _hashvalue(self))

\* The value of a call that raised.
NoResult == <<>>

\* close without the call of MetricBase.close on line 129.
closeWithoutSuper(self) ==
    IF NotReady(self) THEN [self |-> self, err |-> "not_ready", res |-> NoResult]
    ELSE [self |-> self, err |-> "none", res |-> Result(self)]

\* close emptying prec_list and rec_list once it has built the result.
closeAndClear(self) ==
    IF NotReady(self) THEN [self |-> self, err |-> "not_ready", res |-> NoResult]
    ELSE LET base == MetricBase_close(self)
         IN IF base.err # "none"
            THEN [self |-> base.self, err |-> base.err, res |-> NoResult]
            ELSE [self |-> [base.self EXCEPT !.prec_list = <<>>, !.rec_list = <<>>],
                  err |-> "none", res |-> Result(base.self) @@ base.res]

\* _PrecisionRecallMetric.close: the object after the call, the exception
\* raised and the mapping returned.
close(self) ==
    IF NotReady(self) THEN [self |-> self, err |-> "not_ready", res |-> NoResult]
    ELSE LET base == MetricBase_close(self)
         IN IF base.err # "none"
            THEN [self |-> base.self, err |-> base.err, res |-> NoResult]
            ELSE [self |-> base.self, err |-> "none",
                  res |-> Result(base.self) @@ base.res]

-----------------------------------------------------------------------------
(* The callers' inputs *)

\* Reference sentences as the caller passes them (forward drops the first token).
RefA == <<2, 4>>
RefB == <<5, 4>>
RefC == <<4, 5, 4>>

\* Generated sentences as the caller passes them, end token included.
GenA == <<4, 3>>
GenB == <<5, 4, 3>>
GenU == <<1, 3>>

\* The references of one instance, and the generated sentences of one instance.
RefInsts == {<<>>, <<RefA>>, <<RefC, RefB>>}
GenInsts == {<<>>, <<GenA>>, <<GenB, GenU>>}

\* data[candidate_allvocabs_key] and data[multiple_gen_key], each with its
\* Python type.  A tuple stands for every type that is no list and no ndarray.
ListBatches ==
    {[cav_type |-> "list", cav |-> c, gen_type |-> "list", gen |-> g] :
        c \in SeqsUpTo(RefInsts, MaxBatch), g \in SeqsUpTo(GenInsts, MaxBatch)}

TypedBatches ==
    {[cav_type |-> ct, cav |-> <<>>, gen_type |-> gt, gen |-> <<>>] :
        ct \in {"list", "ndarray", "tuple"}, gt \in {"list", "ndarray", "tuple"}}

\* Batches of a wrong type, or of lists, that fail further checks as well:
\* no or one instance of references against one instance of three generated
\* sentences.
MixedBatches ==
    {[cav_type |-> ct, cav |-> c, gen_type |-> gt, gen |-> << <<GenA, GenA, GenA>> >>] :
        ct \in {"list", "tuple"}, gt \in {"list", "tuple"},
        c \in {<<>>, << <<RefA>> >>}}

Batches == ListBatches \cup TypedBatches \cup MixedBatches

\* Embedding tables: (word, vector) items in insertion order.
TableEmpty == <<>>
TableA == << <<"I", <<1, 0>>>>, <<"have", <<0, 1>>>> >>
TableARev == << <<"have", <<0, 1>>>>, <<"I", <<1, 0>>>> >>
TableB == << <<"I", <<1, 0>>>>, <<"have", <<0 - 1, 0>>>> >>

\* The metric objects a caller constructs.
Constructed ==
    {Bleu_init(1, 1), Bleu_init(2, 2), Bleu_init(1, 0),
     Emb_init(TableA, "avg", 1), Emb_init(TableA, "extrema", 2),
     Emb_init(TableB, "avg", 1), Emb_init(TableEmpty, "extrema", 1)}

-----------------------------------------------------------------------------
(* The state machine *)

Objs == DOMAIN metric

NoCall == [op |-> "none", err |-> "none", res |-> NoResult]

\* One metric object, just constructed.
Init ==
    /\ metric \in [{1} -> Constructed]
    /\ last = [m \in {1} |-> NoCall]
    /\ fed = [m \in {1} |-> <<>>]
    /\ results = [m \in {1} |-> <<>>]

\* The forward calls of a history that returned.
Returned(history) == {k \in 1..Len(history) : history[k].err = "none"}

\* A call metric[m].forward(data).
Forward(m, data) ==
    LET out == forward(metric[m], data)
    IN /\ Len(fed[m]) < MaxCalls
       /\ metric' = [metric EXCEPT ![m] = out.self]
       /\ last' = [last EXCEPT ![m] = [op |-> "forward", err |-> out.err,
                                       res |-> NoResult]]
       /\ fed' = IF out.err \in {"none", "ValueError", "ZeroDivisionError"}
                 THEN [fed EXCEPT ![m] = Append(@, [data |-> data, err |-> out.err])]
                 ELSE fed
       /\ UNCHANGED results

\* A call metric[m].close().
Close(m) ==
    LET out == close(metric[m])
    IN /\ metric' = [metric EXCEPT ![m] = out.self]
       /\ last' = [last EXCEPT ![m] = [op |-> "close", err |-> out.err,
                                       res |-> out.res]]
       /\ results' = IF out.err = "none"
                     THEN [results EXCEPT ![m] =
                              Append(@, [res |-> out.res,
                                         calls |-> Cardinality(Returned(fed[m]))])]
                     ELSE results
       /\ UNCHANGED fed

ForwardCall == \E m \in Objs, data \in Batches : Forward(m, data)

CloseCall == \E m \in Objs : Close(m)

Next == ForwardCall \/ CloseCall

Spec == Init /\ [][Next]_vars

-----------------------------------------------------------------------------
(* Two metric objects side by side, to compare their fingerprints *)

\* The constructions of the two objects.
Pairs ==
    {<<Bleu_init(1, 1), Bleu_init(1, 1)>>,
     <<Bleu_init(2, 2), Bleu_init(2, 2)>>,
     <<Emb_init(TableA, "avg", 1), Emb_init(TableA, "avg", 1)>>,
     <<Bleu_init(1, 1), Bleu_init(2, 1)>>,
     <<Bleu_init(1, 1), Bleu_init(1, 2)>>,
     <<Emb_init(TableA, "avg", 1), Emb_init(TableA, "extrema", 1)>>,
     <<Emb_init(TableA, "avg", 1), Emb_init(TableB, "avg", 1)>>,
     <<Emb_init(TableA, "avg", 1), Emb_init(TableA, "avg", 2)>>,
     <<Emb_init(TableA, "avg", 1), Emb_init(TableARev, "avg", 1)>>}

ListBatch(cav, gen) ==
    [cav_type |-> "list", cav |-> cav, gen_type |-> "list", gen |-> gen]

\* The batches the two objects are given.
PairBatches ==
    {ListBatch(<<<<RefA>>>>, <<<<GenA>>>>),
     ListBatch(<<<<RefA>>>>, <<<<GenU>>>>),
     ListBatch(<<<<RefC, RefB>>>>, <<<<GenA>>>>),
     ListBatch(<<<<RefA>>>>, <<<<GenB, GenU>>>>),
     ListBatch(<<<<RefA>>>>, <<<<GenA, GenA>>>>),
     ListBatch(<<<<RefC, RefB>>>>, <<<<GenB, GenU>>>>),
     ListBatch(<<<<RefA>>, <<>>>>, <<<<GenA>>, <<GenA>>>>),
     ListBatch(<<<<RefB>>>>, <<<<GenA>>>>)}

InitPair ==
    /\ metric \in Pairs
    /\ last = [m \in {1, 2} |-> NoCall]
    /\ fed = [m \in {1, 2} |-> <<>>]
    /\ results = [m \in {1, 2} |-> <<>>]

PairForwardCall == \E m \in Objs, data \in PairBatches : Forward(m, data)

NextPair == PairForwardCall \/ CloseCall

SpecPair == InitPair /\ [][NextPair]_vars

-----------------------------------------------------------------------------
(* One metric object whose strategy scores single pairs of sentences *)

\* The token ids of the scored sentences: <unk>, I, have.
TokenIds == {unk_id, 4, 5}

\* Sentences as _score gets them: trimmed, without start and end token.
Sentences == SeqsUpTo(TokenIds, MaxSentence)

TableC == << <<"I", <<1, 2>>>>, <<"have", <<2, 0 - 1>>>>, <<"<unk>", <<0, 1>>>> >>

\* The objects that score: every one with generated_num_per_context = 1.
ScoreObjs ==
    {Bleu_init(1, 1), Bleu_init(2, 1),
     Emb_init(TableA, "avg", 1), Emb_init(TableA, "extrema", 1),
     Emb_init(TableC, "avg", 1), Emb_init(TableC, "extrema", 1),
     Emb_init(TableB, "avg", 1), Emb_init(TableEmpty, "avg", 1)}

\* Batches of one instance with one generated sentence: one of unknown
\* tokens alone, one with known tokens.
InstanceBatches ==
    {ListBatch(<< << <<2, 1>> >> >>, << << <<1, 3>> >> >>),
     ListBatch(<< << <<2, 1>>, <<2, 4>> >> >>, << << <<4, 3>> >> >>)}

InitScore ==
    /\ metric \in [{1} -> ScoreObjs]
    /\ last = [m \in {1} |-> NoCall]
    /\ fed = [m \in {1} |-> <<>>]
    /\ results = [m \in {1} |-> <<>>]

\* A call metric[m]._score(gen, reference); last[m].res keeps the arguments
\* and the score returned.
Score(m, gen, reference) ==
    /\ last' = [last EXCEPT ![m] =
                   [op |-> "_score", err |-> "none",
                    res |-> [gen |-> gen, reference |-> reference,
                             score |-> _score(metric[m], gen, reference)]]]
    /\ UNCHANGED <<metric, fed, results>>

ScoreCall == \E m \in Objs, gen \in Sentences, reference \in Sentences :
                 Score(m, gen, reference)

InstanceForwardCall == \E m \in Objs, data \in InstanceBatches : Forward(m, data)

NextScore == ScoreCall \/ InstanceForwardCall

SpecScore == InitScore /\ [][NextScore]_vars

-----------------------------------------------------------------------------
(* The construction of an object of the embedding strategy, and its use *)

\* Tables with vectors of different lengths and with vectors of length 0.
TableRagged == << <<"I", <<1, 0>>>>, <<"have", <<1>>>> >>
TableZeroDim == << <<"I", <<>>>>, <<"have", <<>>>> >>

\* The word2vec arguments: its Python type and its items.  A list stands for
\* every type that is no dict.
CtorTables ==
    {[type |-> "dict", items |-> TableEmpty], [type |-> "dict", items |-> TableA],
     [type |-> "dict", items |-> TableRagged], [type |-> "dict", items |-> TableZeroDim],
     [type |-> "list", items |-> TableEmpty]}

CtorModes == {"avg", "extrema", "max"}

\* No constructor was called yet: there is no object.
InitNew ==
    /\ metric = <<>>
    /\ last = <<>>
    /\ fed = <<>>
    /\ results = <<>>

\* The call EmbSimilarityPrecisionRecallMetric(dataloader, word2vec, mode, 1).
\* When it raises there is no object, and last[1] keeps the exception.
Construct(table, mode) ==
    LET out == Emb_construct(table.type, table.items, mode, 1)
    IN /\ last = <<>>
       /\ last' = <<[op |-> "__init__", err |-> out.err, res |-> NoResult]>>
       /\ metric' = IF out.err = "none" THEN <<out.self>> ELSE <<>>
       /\ fed' = IF out.err = "none" THEN << <<>> >> ELSE <<>>
       /\ results' = IF out.err = "none" THEN << <<>> >> ELSE <<>>

ConstructCall == \E table \in CtorTables, mode \in CtorModes : Construct(table, mode)

NextNew == ConstructCall \/ PairForwardCall \/ CloseCall

SpecNew == InitNew /\ [][NextNew]_vars

-----------------------------------------------------------------------------
(* What the claims speak of *)

\* The accumulated state of a metric object.
Accumulated(self) == <<self.prec_list, self.rec_list, self.unordered_hash>>

\* The three ways a batch fails the checks of forward.
TypeFault(data) ==
    \/ data.cav_type \notin {"list", "ndarray"}
    \/ data.gen_type \notin {"list", "ndarray"}

BatchSizeFault(data) == Len(data.cav) # Len(data.gen)

CountFault(self, data) ==
    \E b \in 1..Len(data.gen) : Len(data.gen[b]) # self.generated_num_per_context

FailsChecks(self, data) ==
    TypeFault(data) \/ BatchSizeFault(data) \/ CountFault(self, data)

CheckErrors == {"type_candidate_allvocabs", "type_multiple_gen", "batch_num", "gen_num"}

\* The instances of a checked batch that forward scores and appends: all of
\* them, or those before the first instance without references or without
\* generated sentences.
NumAppended(data) ==
    LET bad == {b \in 1..Len(data.cav) : data.cav[b] = <<>> \/ data.gen[b] = <<>>}
    IN IF bad = {} THEN Len(data.cav)
       ELSE (CHOOSE b \in bad : \A c \in bad : b <= c) - 1

RECURSIVE NumAccumulated(_)
\* The instances accumulated by the calls of a history.
NumAccumulated(history) ==
    IF history = <<>> THEN 0
    ELSE NumAppended(Head(history).data) + NumAccumulated(Tail(history))

-----------------------------------------------------------------------------
(* C1 *)

\* C1: a forward call whose batch fails a check (type, batch size, number of
\* generated sentences) leaves prec_list, rec_list and the reference hash of
\* the object as they were, whatever was called before.
C1_FailedCheckLeavesState ==
    [][\A m \in Objs :
          Accumulated(metric'[m]) # Accumulated(metric[m])
          => \A data \in Batches :
                 FailsChecks(metric[m], data) => ~Forward(m, data)]_vars

\* A call that failed a check on an object that holds entries already.
C1_Witness ==
    \E m \in Objs :
        /\ last[m].op = "forward"
        /\ last[m].err \in CheckErrors
        /\ metric[m].prec_list # <<>>
        /\ ~metric[m].closed

-----------------------------------------------------------------------------
(* C2 *)

\* C2: a forward call that raises, for whatever reason, has appended no
\* precision or recall entry and has not added the references of its batch
\* to the reference hash.
C2_ForwardAllOrNothing ==
    [][\A m \in Objs :
          (last'[m].op = "forward" /\ last'[m].err # "none")
          => Accumulated(metric'[m]) = Accumulated(metric[m])]_vars

-----------------------------------------------------------------------------
(* C3 *)

\* C3: close raises the not-ready error and returns nothing when no instance
\* has been accumulated since construction, and does not raise the not-ready
\* error once an instance has been accumulated.
C3_CloseNotReady ==
    \A m \in Objs :
        last[m].op = "close"
        => IF NumAccumulated(fed[m]) = 0
           THEN last[m].err = "not_ready" /\ last[m].res = NoResult
           ELSE last[m].err # "not_ready"

\* close raised not-ready after forward calls that all carried no instance
\* or failed a check.
C3_WitnessNotReady ==
    \E m \in Objs :
        /\ last[m].op = "close"
        /\ last[m].err = "not_ready"
        /\ fed[m] # <<>>
        /\ \A k \in 1..Len(fed[m]) : fed[m][k].data.cav = <<>>

-----------------------------------------------------------------------------
(* C4 *)

\* matrix[i][j] of the claims: the score of candidate j against reference i
\* of an instance, as forward prepares the two sentences.
Cell(self, refs, gens, i, j) ==
    _score(self, trim_in_ids(gens[j]), trim_in_ids(Tail1(refs[i])))

\* The largest number of a non-empty set of scores, nan if nan is among them.
Largest(S) == IF NaN \in S THEN NaN ELSE CHOOSE x \in S : \A y \in S : y <= x

RECURSIVE Total(_, _)
\* The sum of f[k] over k in S, nan if a term is nan.
Total(f, S) ==
    IF S = {} THEN 0
    ELSE LET k == CHOOSE x \in S : TRUE
             rest == Total(f, S \ {k})
         IN IF f[k] = NaN \/ rest = NaN THEN NaN ELSE f[k] + rest

\* (sum over candidates j of the maximum over references i of matrix[i][j]) / C
PrecisionOf(self, refs, gens) ==
    LET best == [j \in 1..Len(gens) |->
                    Largest({Cell(self, refs, gens, i, j) : i \in 1..Len(refs)})]
    IN Frac(Total(best, 1..Len(gens)), Len(gens))

\* (sum over references i of the maximum over candidates j of matrix[i][j]) / R
RecallOf(self, refs, gens) ==
    LET best == [i \in 1..Len(refs) |->
                    Largest({Cell(self, refs, gens, i, j) : j \in 1..Len(gens)})]
    IN Frac(Total(best, 1..Len(refs)), Len(refs))

RECURSIVE InstancesOf(_)
\* The instances of the forward calls of a history that returned, as
\* <<references, generated sentences>>, in call and batch order.
InstancesOf(history) ==
    IF history = <<>> THEN <<>>
    ELSE LET h == Head(history)
         IN (IF h.err = "none"
             THEN [b \in 1..Len(h.data.cav) |-> <<h.data.cav[b], h.data.gen[b]>>]
             ELSE <<>>)
            \o InstancesOf(Tail(history))

\* The arithmetic mean of the numbers f[1], ..., f[n], n > 0.
MeanOf(f) ==
    LET t == FSum(f) IN Frac(t.n, t.d * Len(f))

\* C4: with an instance accumulated, close returns as precision and recall
\* the arithmetic means of the contributions of all instances of all forward
\* calls that returned, every instance with the same weight.
C4_CloseReturnsMeans ==
    \A m \in Objs :
        (last[m].op = "close" /\ last[m].err = "none" /\ InstancesOf(fed[m]) # <<>>)
        => LET insts == InstancesOf(fed[m])
               precs == [k \in 1..Len(insts) |->
                            PrecisionOf(metric[m], insts[k][1], insts[k][2])]
               recs  == [k \in 1..Len(insts) |->
                            RecallOf(metric[m], insts[k][1], insts[k][2])]
           IN /\ last[m].res[metric[m].res_prefix \o " precision"] = MeanOf(precs)
              /\ last[m].res[metric[m].res_prefix \o " recall"] = MeanOf(recs)

-----------------------------------------------------------------------------
(* C5 *)

\* The arguments a metric object was constructed with.
Configuration(self) ==
    <<self.name, self.ngram, self.mode, self.word2vec, self.generated_num_per_context>>

\* The fingerprint of the first result close returned on m.
HashValue(m) == results[m][1].res[metric[m].res_prefix \o " hashvalue"]

BothClosed == results[1] # <<>> /\ results[2] # <<>>

\* The batches forward took on m, in call order.
Taken(m) == [k \in 1..Len(fed[m]) |-> fed[m][k].data]

\* C5: two objects of the same configuration that took the same batches in
\* different orders return the same fingerprint.
C5_BatchOrderInvariant ==
    (/\ BothClosed
     /\ Configuration(metric[1]) = Configuration(metric[2])
     /\ BagOfSeq(Taken(1)) = BagOfSeq(Taken(2)))
    => HashValue(1) = HashValue(2)

\* Both objects returned a result after the same two batches, with
\* different references, taken in opposite orders.
C5_Witness ==
    /\ BothClosed
    /\ Configuration(metric[1]) = Configuration(metric[2])
    /\ Len(Taken(1)) = 2 /\ Len(Taken(2)) = 2
    /\ Taken(1)[1] = Taken(2)[2] /\ Taken(1)[2] = Taken(2)[1]
    /\ Taken(1)[1].cav # Taken(1)[2].cav

-----------------------------------------------------------------------------
(* C6 *)

\* C6: the entries forward appends for the instances of a batch are
\* (sum over j of max over i of matrix[i][j]) / C for precision and
\* (sum over i of max over j of matrix[i][j]) / R for recall.
C6_Contributions ==
    [][\A m \in Objs :
          metric'[m].prec_list # metric[m].prec_list
          => \A data \in Batches :
                 Forward(m, data)
                 => LET old == Len(metric[m].prec_list)
                    IN \A k \in 1..(Len(metric'[m].prec_list) - old) :
                          /\ metric'[m].prec_list[old + k]
                                = PrecisionOf(metric[m], data.cav[k], data.gen[k])
                          /\ metric'[m].rec_list[old + k]
                                = RecallOf(metric[m], data.cav[k], data.gen[k])]_vars

\* forward returned for a batch whose last instance has two references and
\* two generated sentences, and its precision differs from its recall.
C6_Witness ==
    \E m \in Objs :
        /\ last[m].op = "forward" /\ last[m].err = "none"
        /\ LET data == fed[m][Len(fed[m])].data
               n == Len(metric[m].prec_list)
           IN /\ data.cav # <<>>
              /\ Len(data.cav[Len(data.cav)]) = 2
              /\ Len(data.gen[Len(data.gen)]) = 2
              /\ metric[m].prec_list[n] # metric[m].rec_list[n]
              /\ metric[m].prec_list[n].n > 0

-----------------------------------------------------------------------------
(* C7 *)

\* C7: after a close that returned a result, a close with no forward call
\* returning in between raises and returns nothing.
C7_SecondCloseFails ==
    [][\A m \in Objs :
          (/\ Close(m)
           /\ results[m] # <<>>
           /\ results[m][Len(results[m])].calls = Cardinality(Returned(fed[m])))
          => last'[m].err # "none" /\ last'[m].res = NoResult
             /\ results'[m] = results[m]]_vars

\* A close that raised on an object whose earlier close returned a result.
C7_Witness ==
    \E m \in Objs :
        /\ results[m] # <<>>
        /\ last[m].op = "close"
        /\ last[m].err = "closed"

-----------------------------------------------------------------------------
(* C8 *)

\* C8: once close has returned a result, no forward call returns and the
\* precision and recall lists get no further entry.
C8_NoForwardAfterClose ==
    [][\A m \in Objs :
          results[m] # <<>>
          => /\ metric'[m].prec_list = metric[m].prec_list
             /\ metric'[m].rec_list = metric[m].rec_list
             /\ last'[m].op = "forward" => last'[m].err = "closed"]_vars

\* A forward call with a well-formed batch, refused after close returned.
C8_Witness ==
    \E m \in Objs :
        /\ results[m] # <<>>
        /\ last[m].op = "forward"
        /\ last[m].err = "closed"

-----------------------------------------------------------------------------
(* C9 *)

\* The calls of both objects carried the same references, call by call.
SameReferences ==
    /\ Len(fed[1]) = Len(fed[2])
    /\ \A k \in 1..Len(fed[1]) : fed[1][k].data.cav = fed[2][k].data.cav

\* C9: two objects of the same configuration that took the same references,
\* with whatever generated sentences, return the same fingerprint.
C9_CandidateIndependent ==
    (/\ BothClosed
     /\ Configuration(metric[1]) = Configuration(metric[2])
     /\ SameReferences)
    => HashValue(1) = HashValue(2)

\* Both objects returned a result after the same references with different
\* generated sentences.
C9_Witness ==
    /\ BothClosed
    /\ Configuration(metric[1]) = Configuration(metric[2])
    /\ SameReferences
    /\ \E k \in 1..Len(fed[1]) : fed[1][k].data.gen # fed[2][k].data.gen

-----------------------------------------------------------------------------
(* C10 *)

Items(word2vec) == {word2vec[k] : k \in 1..Len(word2vec)}

\* Two objects of one strategy that differ in a parameter of the configuration.
ConfigurationDiffers(a, b) ==
    /\ a.name = b.name
    /\ \/ a.ngram # b.ngram
       \/ a.mode # b.mode
       \/ Items(a.word2vec) # Items(b.word2vec)
       \/ a.generated_num_per_context # b.generated_num_per_context

\* C10: two objects of one strategy that took the same references and differ
\* in ngram, in the pooling mode, in the contents of the embedding table or
\* in generated_num_per_context return different fingerprints.
C10_ConfigurationSensitive ==
    (/\ BothClosed
     /\ ConfigurationDiffers(metric[1], metric[2])
     /\ SameReferences)
    => HashValue(1) # HashValue(2)

\* Results after the same references, the objects differing in
\* generated_num_per_context alone.
C10_WitnessGenNum ==
    /\ BothClosed /\ SameReferences
    /\ metric[1].name = "BleuPrecisionRecallMetric"
    /\ metric[1].name = metric[2].name
    /\ metric[1].ngram = metric[2].ngram
    /\ metric[1].generated_num_per_context # metric[2].generated_num_per_context

-----------------------------------------------------------------------------
(* C11 *)

\* Two objects of the embedding strategy whose tables hold the same
\* (token, vector) pairs, with the same mode and generated_num_per_context.
SameTableContents(a, b) ==
    /\ a.name = "EmbSimilarityPrecisionRecallMetric"
    /\ b.name = "EmbSimilarityPrecisionRecallMetric"
    /\ a.mode = b.mode
    /\ a.generated_num_per_context = b.generated_num_per_context
    /\ Items(a.word2vec) = Items(b.word2vec)

\* C11: two objects of the embedding strategy built with the same mode, the
\* same generated_num_per_context and tables of the same (token, vector)
\* pairs, in whatever insertion order, have the same configuration hash and
\* return the same fingerprint for the same references.
C11_TableOrderInvariant ==
    SameTableContents(metric[1], metric[2])
    => /\ metric[1].ordered_hash = metric[2].ordered_hash
       /\ (BothClosed /\ SameReferences) => HashValue(1) = HashValue(2)

-----------------------------------------------------------------------------
(* C12 *)

\* A float in [0, 1]: between 0 and ScoreDen units of the grid.
InUnit(x) == x.n # NaN /\ 0 <= x.n /\ x.n <= ScoreDen * x.d

\* Every score of the matrix of an instance lies in [0, 1].
ScoresInUnit(self, refs, gens) ==
    \A i \in 1..Len(refs), j \in 1..Len(gens) :
        Cell(self, refs, gens, i, j) \in 0..ScoreDen

\* C12: the precision and recall lists only grow at their end, and every
\* entry appended for an instance whose scores all lie in [0, 1] lies in
\* [0, 1].
C12_EntriesInUnit ==
    [][\A m \in Objs :
          LET old == Len(metric[m].prec_list)
              new == Len(metric'[m].prec_list)
          IN /\ SubSeq(metric'[m].prec_list, 1, old) = metric[m].prec_list
             /\ SubSeq(metric'[m].rec_list, 1, old) = metric[m].rec_list
             /\ \A k \in 1..(new - old) :
                   LET data == fed'[m][Len(fed'[m])].data
                   IN ScoresInUnit(metric[m], data.cav[k], data.gen[k])
                      => /\ InUnit(metric'[m].prec_list[old + k])
                         /\ InUnit(metric'[m].rec_list[old + k])]_vars

\* forward returned for a batch whose last instance has two references with
\* scores in [0, 1], and its recall lies strictly between 0 and 1.
C12_Witness ==
    \E m \in Objs :
        /\ last[m].op = "forward" /\ last[m].err = "none"
        /\ LET data == fed[m][Len(fed[m])].data
               n == Len(metric[m].rec_list)
           IN /\ data.cav # <<>>
              /\ Len(data.cav[Len(data.cav)]) = 2
              /\ ScoresInUnit(metric[m], data.cav[Len(data.cav)], data.gen[Len(data.gen)])
              /\ metric[m].rec_list[n].n > 0
              /\ metric[m].rec_list[n].n < ScoreDen * metric[m].rec_list[n].d

-----------------------------------------------------------------------------
(* C13 *)

\* No token of a sentence is a word of the embedding table.
NoneInTable(self, ids) ==
    \A k \in 1..Len(ids) : all_vocab_list[ids[k] + 1] \notin
        {self.word2vec[t][1] : t \in 1..Len(self.word2vec)}

\* No token of any reference and of any generated sentence of an instance,
\* as forward prepares them, is a word of the embedding table.
InstanceOutsideTable(self, refs, gens) ==
    /\ \A i \in 1..Len(refs) : NoneInTable(self, trim_in_ids(Tail1(refs[i])))
    /\ \A j \in 1..Len(gens) : NoneInTable(self, trim_in_ids(gens[j]))

\* C13: with the embedding strategy a pair of which one sentence has no
\* token in the table scores exactly 0, and forward appends precision 0 and
\* recall 0 for an instance without any token in the table.
C13_NoVectorScoresZero ==
    \A m \in Objs :
        metric[m].name = "EmbSimilarityPrecisionRecallMetric"
        => /\ last[m].op = "_score"
              => ((\/ NoneInTable(metric[m], last[m].res.gen)
                   \/ NoneInTable(metric[m], last[m].res.reference))
                  => last[m].res.score = 0)
           /\ (last[m].op = "forward" /\ last[m].err = "none")
              => LET data == fed[m][Len(fed[m])].data
                     n == Len(metric[m].prec_list) - Len(data.cav)
                 IN \A k \in 1..Len(data.cav) :
                        InstanceOutsideTable(metric[m], data.cav[k], data.gen[k])
                        => /\ metric[m].prec_list[n + k] = Frac(0, 1)
                           /\ metric[m].rec_list[n + k] = Frac(0, 1)

\* On an object with a table, whose first forward call appended precision 0
\* and recall 0 for an instance without any token in the table, a sentence
\* with tokens of the table scored 0 against a sentence without.
C13_Witness ==
    \E m \in Objs :
        /\ metric[m].name = "EmbSimilarityPrecisionRecallMetric"
        /\ metric[m].word2vec # <<>>
        /\ fed[m] # <<>>
        /\ fed[m][1].err = "none"
        /\ InstanceOutsideTable(metric[m], fed[m][1].data.cav[1], fed[m][1].data.gen[1])
        /\ metric[m].prec_list[1] = Frac(0, 1)
        /\ metric[m].rec_list[1] = Frac(0, 1)
        /\ last[m].op = "_score"
        /\ last[m].res.gen # <<>>
        /\ ~NoneInTable(metric[m], last[m].res.gen)
        /\ last[m].res.reference # <<>>
        /\ NoneInTable(metric[m], last[m].res.reference)
        /\ last[m].res.score = 0

-----------------------------------------------------------------------------
(* C14 *)

\* The vectors of a table that do not all have one length, or have length 0.
BadDimensions(items) ==
    \/ \E k \in 1..Len(items), l \in 1..Len(items) : Len(items[k][2]) # Len(items[l][2])
    \/ \E k \in 1..Len(items) : Len(items[k][2]) = 0

\* C14: the constructor of the embedding strategy raises, and leaves no
\* object that could be forwarded data, for a non-empty table with vectors of
\* different or zero length and for a mode other than 'avg' and 'extrema';
\* it returns an object for an empty table or a table of vectors of one
\* positive length, with a valid mode.
C14_ConstructorChecks ==
    [][/\ \A table \in CtorTables, mode \in CtorModes :
             Construct(table, mode)
             => /\ ((table.type = "dict" /\ table.items # <<>> /\ BadDimensions(table.items))
                    \/ mode \notin {"avg", "extrema"})
                   => (last'[1].err # "none" /\ Objs' = {})
                /\ (table.type = "dict" /\ ~BadDimensions(table.items)
                    /\ mode \in {"avg", "extrema"})
                   => (last'[1].err = "none" /\ Objs' = {1}
                       /\ metric'[1].word2vec = table.items /\ metric'[1].mode = mode)
       /\ (last # <<>> /\ last[1].err # "none" /\ last[1].op = "__init__") => FALSE]_vars

\* The constructor raised for a table whose vectors have different lengths.
C14_Witness ==
    /\ last # <<>>
    /\ last[1].op = "__init__"
    /\ last[1].err = "embed_shape"
    /\ metric = <<>>

-----------------------------------------------------------------------------
(* C15 *)

\* A token id that no sentence holds: the first id past the vocabulary.
FreshId == Len(all_vocab_list)

\* A sentence with every unknown token replaced by a given id.
Masked(ids, by) == [k \in 1..Len(ids) |-> IF ids[k] = unk_id THEN by ELSE ids[k]]

\* C15: the n-gram strategy replaces every unk_id of the candidate, and no
\* other token, by -1, and scores the result against the unchanged reference:
\* the unknown tokens of the candidate count like tokens the reference does
\* not hold, also when the reference holds unk_id, and a candidate of unknown
\* tokens alone scores 0.
C15_UnknownNeverMatches ==
    \A m \in Objs :
        (metric[m].name = "BleuPrecisionRecallMetric" /\ last[m].op = "_score")
        => LET gen == last[m].res.gen
               reference == last[m].res.reference
           IN /\ _replace_unk(gen, 0 - 1) = Masked(gen, 0 - 1)
              /\ last[m].res.score
                    = sentence_bleu(reference, Masked(gen, FreshId), metric[m].ngram)
              /\ (\A k \in 1..Len(gen) : gen[k] = unk_id) => last[m].res.score = 0

\* A candidate scored against a reference equal to it, both with an unknown
\* and a known token: the score is positive and below 1.
C15_Witness ==
    \E m \in Objs :
        /\ metric[m].name = "BleuPrecisionRecallMetric"
        /\ last[m].op = "_score"
        /\ last[m].res.gen = last[m].res.reference
        /\ \E k \in 1..Len(last[m].res.gen) : last[m].res.gen[k] = unk_id
        /\ last[m].res.score > 0
        /\ last[m].res.score < ScoreDen

-----------------------------------------------------------------------------
(* C16 *)

\* The label of a strategy: 'BLEU-<ngram>' or '<mode>-bow'.
PrefixOf(self) ==
    IF self.name = "BleuPrecisionRecallMetric"
    THEN "BLEU-" \o ToString(self.ngram)
    ELSE self.mode \o "-bow"

\* C16: the mapping a close returns has exactly the three keys
\* '<prefix> precision', '<prefix> recall' and '<prefix> hashvalue'.
C16_ThreeEntries ==
    \A m \in Objs :
        (last[m].op = "close" /\ last[m].err = "none")
        => /\ DOMAIN last[m].res = {PrefixOf(metric[m]) \o " precision",
                                    PrefixOf(metric[m]) \o " recall",
                                    PrefixOf(metric[m]) \o " hashvalue"}
           /\ Cardinality(DOMAIN last[m].res) = 3

\* close returned on an object of the embedding strategy with mode 'extrema'
\* or of the n-gram strategy with ngram 2.
C16_Witness ==
    \E m \in Objs :
        /\ last[m].op = "close" /\ last[m].err = "none"
        /\ \/ metric[m].mode = "extrema"
           \/ metric[m].ngram = 2
        /\ metric[m].res_prefix \in {"extrema-bow", "BLEU-2"}

-----------------------------------------------------------------------------
(* C17 *)

-----------------------------------------------------------------------------
(* C18 *)

\* The first check a batch violates, in the order: type of the reference
\* collection, type of the generated collection, equal batch lengths, number
\* of generated sentences of every instance.
FirstFault(self, data) ==
    CASE data.cav_type \notin {"list", "ndarray"} -> "type_candidate_allvocabs"
      [] data.cav_type \in {"list", "ndarray"}
         /\ data.gen_type \notin {"list", "ndarray"} -> "type_multiple_gen"
      [] ~TypeFault(data) /\ BatchSizeFault(data) -> "batch_num"
      [] ~TypeFault(data) /\ ~BatchSizeFault(data) /\ CountFault(self, data) -> "gen_num"
      [] OTHER -> "none"

\* The number of checks a batch violates.
NumFaults(self, data) ==
    Cardinality({c \in CheckErrors :
        \/ c = "type_candidate_allvocabs" /\ data.cav_type \notin {"list", "ndarray"}
        \/ c = "type_multiple_gen" /\ data.gen_type \notin {"list", "ndarray"}
        \/ c = "batch_num" /\ BatchSizeFault(data)
        \/ c = "gen_num" /\ CountFault(self, data)})

\* C18: in every state of an open object, a forward call raises the error of
\* the first check its batch violates, with nothing scored or hashed, and
\* for a batch that violates no check it raises none of these errors.
C18_FirstFaultReported ==
    \A m \in Objs :
        ~metric[m].closed
        => \A data \in Batches :
               LET out == forward(metric[m], data)
               IN IF FirstFault(metric[m], data) # "none"
                  THEN /\ out.err = FirstFault(metric[m], data)
                       /\ Accumulated(out.self) = Accumulated(metric[m])
                  ELSE out.err \notin CheckErrors

\* A call raised the batch-size error on an object for which some batch
\* violates the batch-size check and the count check and gets that error.
C18_Witness ==
    \E m \in Objs :
        /\ last[m].op = "forward"
        /\ last[m].err = "batch_num"
        /\ ~metric[m].closed
        /\ \E data \in Batches :
              /\ BatchSizeFault(data) /\ CountFault(metric[m], data)
              /\ NumFaults(metric[m], data) = 2
              /\ forward(metric[m], data).err = "batch_num"

-----------------------------------------------------------------------------
(* C19 *)

\* C19: the precision list and the recall list always have the same length,
\* and a forward call that returns for a batch of n instances appends to
\* each, after the entries it held, the n contributions of the instances in
\* the order of the batch.
C19_ListsGrowTogether ==
    /\ [](\A m \in Objs : Len(metric[m].prec_list) = Len(metric[m].rec_list))
    /\ [][\A m \in Objs :
             (last'[m].op = "forward" /\ last'[m].err = "none" /\ fed'[m] # fed[m])
             => LET data == fed'[m][Len(fed'[m])].data
                    old == Len(metric[m].prec_list)
                IN /\ Len(metric'[m].prec_list) = old + Len(data.cav)
                   /\ Len(metric'[m].rec_list) = old + Len(data.cav)
                   /\ SubSeq(metric'[m].prec_list, 1, old) = metric[m].prec_list
                   /\ SubSeq(metric'[m].rec_list, 1, old) = metric[m].rec_list
                   /\ \A k \in 1..Len(data.cav) :
                         /\ metric'[m].prec_list[old + k]
                               = PrecisionOf(metric[m], data.cav[k], data.gen[k])
                         /\ metric'[m].rec_list[old + k]
                               = RecallOf(metric[m], data.cav[k], data.gen[k])]_vars

\* forward returned for a batch of two instances with different recalls, on
\* an object that held entries before.
C19_Witness ==
    \E m \in Objs :
        /\ last[m].op = "forward" /\ last[m].err = "none"
        /\ LET data == fed[m][Len(fed[m])].data
               n == Len(metric[m].rec_list)
           IN /\ Len(data.cav) = 2
              /\ n > 2
              /\ metric[m].rec_list[n - 1] # metric[m].rec_list[n]

-----------------------------------------------------------------------------
(* C20 *)

\* Two batches with the same generated sentences whose references differ at
\* most in the first token of reference sentences.
FirstTokensApart(a, b) ==
    /\ a.gen = b.gen
    /\ Len(a.cav) = Len(b.cav)
    /\ \A k \in 1..Len(a.cav) :
          /\ Len(a.cav[k]) = Len(b.cav[k])
          /\ \A i \in 1..Len(a.cav[k]) :
                /\ Len(a.cav[k][i]) = Len(b.cav[k][i])
                /\ \A t \in 2..Len(a.cav[k][i]) : a.cav[k][i][t] = b.cav[k][i][t]

\* The calls of both objects carried such batches, call by call.
SameButFirstTokens ==
    /\ Len(fed[1]) = Len(fed[2])
    /\ \A k \in 1..Len(fed[1]) : FirstTokensApart(fed[1][k].data, fed[2][k].data)

-----------------------------------------------------------------------------
(* C21 *)

\* A batch that passes the checks of forward and whose instances all have a
\* reference and a generated sentence, at least one instance.
WellFormed(self, data) ==
    /\ FirstFault(self, data) = "none"
    /\ data.cav # <<>>
    /\ NumAppended(data) = Len(data.cav)

\* close leaves prec_list, rec_list and the reference hash as they were.
CloseKeepsAccumulated(m) ==
    Close(m) => Accumulated(metric'[m]) = Accumulated(metric[m])

\* C21 as stated: close leaves prec_list, rec_list and the reference hash
\* as they were, and a forward call after a close that returned a result
\* appends the entries of its batch behind the earlier ones.
C21_ForwardExtendsAfterClose ==
    [][\A m \in Objs :
          /\ CloseKeepsAccumulated(m)
          /\ results[m] # <<>>
             => \A data \in Batches :
                    (WellFormed(metric[m], data) /\ Forward(m, data))
                    => /\ last'[m].err = "none"
                       /\ Len(metric'[m].prec_list)
                             = Len(metric[m].prec_list) + Len(data.cav)
                       /\ SubSeq(metric'[m].prec_list, 1, Len(metric[m].prec_list))
                             = metric[m].prec_list]_vars

\* C21, amended: close leaves prec_list, rec_list and the reference hash as
\* they were.  After a close that raised the not-ready error a forward call
\* with a well-formed batch returns and appends the entries of its batch;
\* after a close that returned a result no call changes the lists or the
\* hash any more, and no later close returns a result.
C21_CloseKeepsLists ==
    [][\A m \in Objs :
          /\ CloseKeepsAccumulated(m)
          /\ (last[m].op = "close" /\ last[m].err = "not_ready")
             => \A data \in Batches :
                    (WellFormed(metric[m], data) /\ Forward(m, data))
                    => /\ last'[m].err = "none"
                       /\ Len(metric'[m].prec_list)
                             = Len(metric[m].prec_list) + Len(data.cav)
          /\ results[m] # <<>>
             => /\ Accumulated(metric'[m]) = Accumulated(metric[m])
                /\ results'[m] = results[m]
                /\ last'[m].err # "none"]_vars

\* close returned a result on an object that holds two entries or more, and
\* holds them still.
C21_Witness ==
    \E m \in Objs :
        /\ last[m].op = "close" /\ last[m].err = "none"
        /\ Len(metric[m].prec_list) >= 2
        /\ Len(metric[m].rec_list) >= 2
        /\ metric[m].unordered_hash # EmptyBag

====
